---- MODULE Spec2Model ----
(***************************************************************************)
(* The store-backed knowledge-base tree of local-yuque:                    *)
(* backend/services/storage.py (StorageService) behind the HTTP handlers   *)
(* of backend/main.py, over the single SQLite table of backend/models.py.  *)
(*                                                                         *)
(* Strings (titles, contents, queries) are sequences of one-character      *)
(* strings, so that substring and LIKE matching are computed, not assumed. *)
(***************************************************************************)
EXTENDS Integers, Sequences, FiniteSets, TLC

\* ------------------------------------------------------------------ bounds

\* Number of create_node calls in a run of Spec (= number of uuids issued).
MaxCreates == 2

\* Number of create_node calls in a run of SpecTree.
MaxTreeNodes == 4

\* Number of create_node calls in a run of SpecScan.
MaxScanNodes == 4

\* ------------------------------------------------------------ value domains

\* Python None in an id position (parent_id of a root).
None == "None"

\* Python None / SQL NULL in an Optional[str] text column.  Every real string
\* is a sequence of one-character strings, so this value is none of them.
NoneStr == <<"None">>

\* The values uuid.uuid4() returns, in the order the process draws them.
\* uuid4 values are random 122-bit numbers: no value is drawn twice and no
\* caller can name one before it has been returned.
IdPool == <<"u1", "u2", "u3", "u4", "u5", "u6">>

\* A caller-supplied id that is no uuid the process ever issues.
Ghost == "ghost"

\* models.py: type is 'kb', 'folder' or 'doc'.
Types == {"kb", "folder", "doc"}

\* Request inputs.
TitleInputs == {<<"A", "b">>, <<"x">>}
ContentInputs == {<< >>, <<"a">>}
QueryInputs == {<<"a">>, <<"A", "b">>, <<"_">>}

\* ------------------------------------------------------------------- state

VARIABLES
    store,      \* the node table, in rowid (insertion) order: what select(Node) returns
    issued,     \* how many uuids uuid4() has returned so far
    call,       \* the last request: [op, id, text]
    resp,       \* its response: [status, content, nodes, tree]
    to_delete,  \* delete_node's local set at the end of the last delete request
    scans       \* how many `for node in nodes` scans its while loop ran

vars == <<store, issued, call, resp, to_delete, scans>>

\* ----------------------------------------------------------------- helpers

SeqToSet(s) == {s[i] : i \in 1..Len(s)}

Ids(nodes) == {nodes[i].id : i \in 1..Len(nodes)}

\* session.get(Node, node_id): the row with that primary key, or no row.
HasNode(nodes, node_id) == \E i \in 1..Len(nodes) : nodes[i].id = node_id

GetNode(nodes, node_id) == nodes[CHOOSE i \in 1..Len(nodes) : nodes[i].id = node_id]

\* The uuids returned so far (live or deleted).
IssuedIds == {IdPool[k] : k \in 1..issued}

\* The ids a caller can name: every uuid already returned, and non-uuid strings.
KnownIds == IssuedIds \cup {Ghost}

\* models.py created_at default: the clock at construction; the clock advances
\* between requests.
Now == issued + 1

\* ------------------------------------------------------ get_tree (storage.py)

\* build_node_dict without the type test: every node gets a children list.
RECURSIVE build_node_dict_any_type(_, _)
build_node_dict_any_type(results, node) ==
    LET kids == SelectSeq(results, LAMBDA n : n.parent_id = node.id)
    IN  [id        |-> node.id,
         parentId  |-> node.parent_id,
         title     |-> node.title,
         type      |-> node.type,
         createdAt |-> node.created_at,
         children  |-> [i \in 1..Len(kids) |-> build_node_dict_any_type(results, kids[i])]]

\* build_node_dict: the view of one node, with the nested views of the rows
\* whose parent_id is its id when (and only when) its type is kb or folder.
RECURSIVE build_node_dict(_, _)
build_node_dict(results, node) ==
    LET node_dict == [id        |-> node.id,
                      parentId  |-> node.parent_id,
                      title     |-> node.title,
                      type      |-> node.type,
                      createdAt |-> node.created_at]
        kids == SelectSeq(results, LAMBDA n : n.parent_id = node.id)
    IN  IF node.type \in {"kb", "folder"}
        THEN [id        |-> node.id,
              parentId  |-> node.parent_id,
              title     |-> node.title,
              type      |-> node.type,
              createdAt |-> node.created_at,
              children  |-> [i \in 1..Len(kids) |-> build_node_dict(results, kids[i])]]
        ELSE node_dict

\* get_tree without the `parent_id is None` filter: every row becomes a root.
GetTreeEveryRowTop(results) ==
    [i \in 1..Len(results) |-> build_node_dict(results, results[i])]

\* get_tree: the views of the rows with parent_id None, in scan order.
GetTree(results) ==
    LET tops == SelectSeq(results, LAMBDA n : n.parent_id = None)
    IN  [i \in 1..Len(tops) |-> build_node_dict(results, tops[i])]

\* -------------------------------------------- read / save / create / rename

\* read_node: the content, "" for a None content; NotFound for a missing id.
ReadNode(nodes, node_id) ==
    IF ~HasNode(nodes, node_id)
    THEN [error |-> "ValueError", value |-> << >>]
    ELSE LET c == GetNode(nodes, node_id).content
         IN  [error |-> "none", value |-> IF c = NoneStr \/ c = << >> THEN << >> ELSE c]

\* save_node_content with a type test: only a doc row is written.
SaveNodeContentDocOnly(nodes, node_id, content) ==
    IF ~HasNode(nodes, node_id)
    THEN [error |-> "ValueError", nodes |-> nodes]
    ELSE [error |-> "none",
          nodes |-> [i \in 1..Len(nodes) |->
                        IF nodes[i].id = node_id /\ nodes[i].type = "doc"
                        THEN [nodes[i] EXCEPT !.content = content]
                        ELSE nodes[i]]]

\* save_node_content without the `if not node` test: a missing id is passed
\* over in silence.
SaveNodeContentNoCheck(nodes, node_id, content) ==
    [error |-> "none",
     nodes |-> [i \in 1..Len(nodes) |->
                   IF nodes[i].id = node_id
                   THEN [nodes[i] EXCEPT !.content = content]
                   ELSE nodes[i]]]

\* save_node_content: overwrite the content of the row, whatever its type.
SaveNodeContent(nodes, node_id, content) ==
    IF ~HasNode(nodes, node_id)
    THEN [error |-> "ValueError", nodes |-> nodes]
    ELSE [error |-> "none",
          nodes |-> [i \in 1..Len(nodes) |->
                        IF nodes[i].id = node_id
                        THEN [nodes[i] EXCEPT !.content = content]
                        ELSE nodes[i]]]

\* A Node constructed with content "" whatever the type.
NewNodeAlwaysContent(new_id, parent_id, type, title, now) ==
    [id         |-> new_id,
     title      |-> title,
     type       |-> type,
     parent_id  |-> parent_id,
     content    |-> << >>,
     created_at |-> now]

\* A Node constructed with its own id in the parent_id field.
NewNodeSelfParent(new_id, parent_id, type, title, now) ==
    [id         |-> new_id,
     title      |-> title,
     type       |-> type,
     parent_id  |-> new_id,
     content    |-> IF type = "doc" THEN << >> ELSE NoneStr,
     created_at |-> now]

\* The Node that create_node constructs.
NewNode(new_id, parent_id, type, title, now) ==
    [id         |-> new_id,
     title      |-> title,
     type       |-> type,
     parent_id  |-> parent_id,
     content    |-> IF type = "doc" THEN << >> ELSE NoneStr,
     created_at |-> now]

\* create_node: insert the new row (it gets the largest rowid).
CreateNodeRows(nodes, new_node) == Append(nodes, new_node)

\* rename_node writing a rebuilt row: the title is set and the content is lost.
RenameNodeDropsContent(nodes, node_id, new_title) ==
    IF ~HasNode(nodes, node_id)
    THEN [error |-> "ValueError", nodes |-> nodes]
    ELSE [error |-> "none",
          nodes |-> [i \in 1..Len(nodes) |->
                        IF nodes[i].id = node_id
                        THEN [nodes[i] EXCEPT !.title = new_title, !.content = NoneStr]
                        ELSE nodes[i]]]

\* rename_node: overwrite the title of the row.
RenameNode(nodes, node_id, new_title) ==
    IF ~HasNode(nodes, node_id)
    THEN [error |-> "ValueError", nodes |-> nodes]
    ELSE [error |-> "none",
          nodes |-> [i \in 1..Len(nodes) |->
                        IF nodes[i].id = node_id
                        THEN [nodes[i] EXCEPT !.title = new_title]
                        ELSE nodes[i]]]

\* ------------------------------------------------------------- delete_node

\* A scan that leaves the for loop at the first row it adds.
RECURSIVE ScanPassStopAtFirst(_, _, _)
ScanPassStopAtFirst(nodes, i, acc) ==
    IF i > Len(nodes) THEN acc
    ELSE IF nodes[i].parent_id \in acc.to_delete /\ nodes[i].id \notin acc.to_delete
         THEN [to_delete |-> acc.to_delete \cup {nodes[i].id}, added |-> TRUE]
         ELSE ScanPassStopAtFirst(nodes, i + 1, acc)

\* One `for node in nodes` scan of the while loop, from row i on.
RECURSIVE ScanPass(_, _, _)
ScanPass(nodes, i, acc) ==
    IF i > Len(nodes) THEN acc
    ELSE IF nodes[i].parent_id \in acc.to_delete /\ nodes[i].id \notin acc.to_delete
         THEN ScanPass(nodes, i + 1,
                       [to_delete |-> acc.to_delete \cup {nodes[i].id}, added |-> TRUE])
         ELSE ScanPass(nodes, i + 1, acc)

\* `while added`: scan again until a full scan adds nothing.
RECURSIVE ExpandLoop(_, _, _)
ExpandLoop(nodes, set, passes) ==
    LET r == ScanPass(nodes, 1, [to_delete |-> set, added |-> FALSE])
    IN  IF r.added
        THEN ExpandLoop(nodes, r.to_delete, passes + 1)
        ELSE [to_delete |-> r.to_delete, passes |-> passes + 1]

\* A delete set without the cascade below the first level: the node and its
\* direct children only.
ToDeleteChildrenOnly(nodes, node_id) ==
    {node_id} \cup {nodes[i].id : i \in {j \in 1..Len(nodes) : nodes[j].parent_id = node_id}}

\* The delete set of delete_node(node_id).
ToDelete(nodes, node_id) == ExpandLoop(nodes, {node_id}, 0).to_delete

\* A delete that removes a row of the delete set only when no row names it as
\* its parent (as a store enforcing the parent reference would).
DeleteNodeRowsLeavesOnly(nodes, node_id) ==
    LET td == ToDelete(nodes, node_id)
    IN  SelectSeq(nodes, LAMBDA n :
            n.id \notin td \/ \E i \in 1..Len(nodes) : nodes[i].parent_id = n.id)

\* delete_node: remove every row whose id is in the delete set.
DeleteNodeRows(nodes, node_id) ==
    LET td == ToDelete(nodes, node_id)
    IN  SelectSeq(nodes, LAMBDA n : n.id \notin td)

\* ------------------------------------------------------------ search_nodes

\* SQLite's LIKE folds the case of ASCII letters.
Lower(c) ==
    CASE c = "A" -> "a"
      [] c = "B" -> "b"
      [] c = "X" -> "x"
      [] OTHER   -> c

\* s LIKE p in SQLite: % matches any run of characters, _ any one character,
\* every other character matches itself up to ASCII case.
RECURSIVE Like(_, _)
Like(p, s) ==
    IF p = << >> THEN s = << >>
    ELSE IF Head(p) = "%"
         THEN Like(Tail(p), s) \/ (s # << >> /\ Like(p, Tail(s)))
    ELSE IF s = << >> THEN FALSE
    ELSE IF Head(p) = "_" THEN Like(Tail(p), Tail(s))
    ELSE Lower(Head(p)) = Lower(Head(s)) /\ Like(Tail(p), Tail(s))

\* column.contains(query): column LIKE '%' || query || '%', NULL on a NULL column.
Contains(column, query) ==
    IF column = NoneStr THEN "NULL"
    ELSE IF Like(<<"%">> \o query \o <<"%">>, column) THEN "TRUE"
    ELSE "FALSE"

\* SQL's three-valued OR.
SqlOr(a, b) ==
    IF a = "TRUE" \/ b = "TRUE" THEN "TRUE"
    ELSE IF a = "NULL" \/ b = "NULL" THEN "NULL"
    ELSE "FALSE"

\* search_nodes: the rows for which the WHERE clause is true, in scan order.
SearchNodes(nodes, query) ==
    SelectSeq(nodes, LAMBDA n :
        SqlOr(Contains(n.title, query), Contains(n.content, query)) = "TRUE")

\* ------------------------------------------------- requests (main.py handlers)

NoResp == [status |-> 200, content |-> << >>, nodes |-> << >>, tree |-> << >>]

Request(op, id, text) == [op |-> op, id |-> id, text |-> text]

Init ==
    /\ store = << >>
    /\ issued = 0
    /\ call = Request("startup", None, << >>)
    /\ resp = NoResp
    /\ to_delete = {}
    /\ scans = 0

\* POST /api/create
CreateNode(limit, parent_id, type, title) ==
    /\ issued < limit
    /\ LET new_node == NewNode(IdPool[issued + 1], parent_id, type, title, Now)
       IN  /\ store' = CreateNodeRows(store, new_node)
           /\ resp' = [NoResp EXCEPT !.nodes = <<new_node>>]
    /\ issued' = issued + 1
    /\ call' = Request("create", parent_id, title)
    /\ to_delete' = {}
    /\ scans' = 0

\* GET /api/kb
GetTreeReq ==
    /\ resp' = [NoResp EXCEPT !.tree = GetTree(store)]
    /\ call' = Request("get_tree", None, << >>)
    /\ to_delete' = {}
    /\ scans' = 0
    /\ UNCHANGED <<store, issued>>

\* GET /api/files/{node_id}
GetFile(node_id) ==
    /\ LET r == ReadNode(store, node_id)
       IN  resp' = IF r.error = "ValueError"
                   THEN [NoResp EXCEPT !.status = 404]
                   ELSE [NoResp EXCEPT !.content = r.value]
    /\ call' = Request("read", node_id, << >>)
    /\ to_delete' = {}
    /\ scans' = 0
    /\ UNCHANGED <<store, issued>>

\* POST /api/files/{node_id}
SaveFile(node_id, content) ==
    /\ LET r == SaveNodeContent(store, node_id, content)
       IN  /\ store' = r.nodes
           /\ resp' = IF r.error = "ValueError"
                      THEN [NoResp EXCEPT !.status = 404]
                      ELSE NoResp
    /\ call' = Request("save", node_id, content)
    /\ to_delete' = {}
    /\ scans' = 0
    /\ UNCHANGED issued

\* POST /api/rename/{node_id}
RenameReq(node_id, title) ==
    /\ LET r == RenameNode(store, node_id, title)
       IN  /\ store' = r.nodes
           /\ resp' = IF r.error = "ValueError"
                      THEN [NoResp EXCEPT !.status = 404]
                      ELSE [NoResp EXCEPT !.nodes = <<GetNode(r.nodes, node_id)>>]
    /\ call' = Request("rename", node_id, title)
    /\ to_delete' = {}
    /\ scans' = 0
    /\ UNCHANGED issued

\* POST /api/delete/{node_id}
DeleteReq(node_id) ==
    /\ store' = DeleteNodeRows(store, node_id)
    /\ to_delete' = ToDelete(store, node_id)
    /\ scans' = ExpandLoop(store, {node_id}, 0).passes
    /\ resp' = NoResp
    /\ call' = Request("delete", node_id, << >>)
    /\ UNCHANGED issued

\* The orders in which select(Node) may return the rows: SQL fixes no order
\* for a SELECT without ORDER BY.
ScanOrders(nodes) ==
    {[i \in 1..Len(nodes) |-> nodes[f[i]]] :
        f \in {g \in [1..Len(nodes) -> 1..Len(nodes)] :
                  \A i, j \in 1..Len(nodes) : g[i] = g[j] => i = j}}

\* POST /api/delete/{node_id}, with `nodes` the rows as the scan returns them.
DeleteReqScanned(node_id, nodes) ==
    /\ LET r == ExpandLoop(nodes, {node_id}, 0)
       IN  /\ store' = SelectSeq(store, LAMBDA n : n.id \notin r.to_delete)
           /\ to_delete' = r.to_delete
           /\ scans' = r.passes
    /\ resp' = NoResp
    /\ call' = Request("delete", node_id, << >>)
    /\ UNCHANGED issued

\* GET /api/search?q=
SearchReq(q) ==
    /\ resp' = [NoResp EXCEPT !.nodes = SearchNodes(store, q)]
    /\ call' = Request("search", None, q)
    /\ to_delete' = {}
    /\ scans' = 0
    /\ UNCHANGED <<store, issued>>

\* Every request, over the request inputs above.
Next ==
    \/ \E p \in {None} \cup IssuedIds, ty \in Types, t \in TitleInputs :
            CreateNode(MaxCreates, p, ty, t)
    \/ GetTreeReq
    \/ \E id \in KnownIds : GetFile(id)
    \/ \E id \in KnownIds, c \in ContentInputs : SaveFile(id, c)
    \/ \E id \in KnownIds, t \in TitleInputs : RenameReq(id, t)
    \/ \E id \in KnownIds : DeleteReq(id)
    \/ \E q \in QueryInputs : SearchReq(q)

Spec == Init /\ [][Next]_vars

\* The requests that shape the tree, with larger trees, parents that are not in
\* the store, and one title.
NextTree ==
    \/ \E p \in {None} \cup KnownIds, ty \in Types :
            CreateNode(MaxTreeNodes, p, ty, <<"x">>)
    \/ GetTreeReq
    \/ \E id \in KnownIds : DeleteReq(id)

SpecTree == Init /\ [][NextTree]_vars

\* Creates and deletes, with the delete's scan returning the rows in any order.
\* delete_node reads only id and parent_id, so the nodes are of one type.
NextScan ==
    \/ \E p \in {None} \cup KnownIds :
            CreateNode(MaxScanNodes, p, "folder", <<"x">>)
    \/ \E id \in KnownIds, nodes \in ScanOrders(store) : DeleteReqScanned(id, nodes)

SpecScan == Init /\ [][NextScan]_vars

\* ================================================================== claims

\* The ids met when following parent_id upward from node_id, at most k links.
RECURSIVE UpChain(_, _, _)
UpChain(nodes, node_id, k) ==
    IF k = 0 \/ ~HasNode(nodes, node_id) THEN {}
    ELSE LET p == GetNode(nodes, node_id).parent_id
         IN  IF p = None THEN {} ELSE {p} \cup UpChain(nodes, p, k - 1)

\* The node root (when present) and every node with root among its ancestors.
Subtree(nodes, root) ==
    {id \in Ids(nodes) : id = root \/ root \in UpChain(nodes, id, Len(nodes))}

Children(nodes, node_id) ==
    {id \in Ids(nodes) : GetNode(nodes, id).parent_id = node_id}

\* No node's parent_id chain reaches the node itself.
Acyclic(nodes) ==
    \A id \in Ids(nodes) : id \notin UpChain(nodes, id, Len(nodes))

\* ---- C1: delete_node(id) removes exactly the node id and every node below it
\* at any depth, and no other node; a node without children goes alone; no
\* surviving node has a removed node as its parent.
C1_CascadeClosure ==
    [][call'.op = "delete" =>
         LET root == call'.id
             removed == Ids(store) \ Ids(store')
         IN  /\ removed = Subtree(store, root)
             /\ store' = SelectSeq(store, LAMBDA n : n.id \in Ids(store'))
             /\ (HasNode(store, root) /\ Children(store, root) = {}) => Ids(store') = Ids(store) \ {root}
             /\ {store'[i].parent_id : i \in 1..Len(store')} \cap (Ids(store) \ Ids(store')) = {}
      ]_vars

\* A delete has removed three nodes and left another node behind.
C1_Witness ==
    /\ call.op = "delete"
    /\ Cardinality(to_delete \cap IssuedIds) >= 3
    /\ Len(store) >= 1
    /\ issued = Len(store) + 3

\* The pre-order list of the ids of a forest of node views.
RECURSIVE FlattenForest(_)
FlattenForest(views) ==
    IF Len(views) = 0 THEN << >>
    ELSE <<views[1].id>>
         \o (IF "children" \in DOMAIN views[1] THEN FlattenForest(views[1].children) ELSE << >>)
         \o FlattenForest(Tail(views))

\* Every view of the forest has parentId pid, and so on below each view.
RECURSIVE NestedUnder(_, _)
NestedUnder(views, pid) ==
    \A i \in 1..Len(views) :
        /\ views[i].parentId = pid
        /\ "children" \in DOMAIN views[i] => NestedUnder(views[i].children, views[i].id)

\* The tree holds exactly the ids of nodes, each once, each under its parent.
TreeFaithful(nodes, tree) ==
    LET flat == FlattenForest(tree)
    IN  /\ Len(flat) = Len(nodes)
        /\ SeqToSet(flat) = Ids(nodes)
        /\ NestedUnder(tree, None)

\* The parent links form a forest: no cycle, every parent present.
IsForest(nodes) ==
    /\ Acyclic(nodes)
    /\ \A i \in 1..Len(nodes) :
           nodes[i].parent_id = None \/ HasNode(nodes, nodes[i].parent_id)

\* A forest in which every parent is a container (kb or folder).
IsContainerForest(nodes) ==
    /\ IsForest(nodes)
    /\ \A i \in 1..Len(nodes) :
           nodes[i].parent_id # None =>
               GetNode(nodes, nodes[i].parent_id).type \in {"kb", "folder"}

\* ---- C2 as stated: for any nodes whose parent links form a forest, get_tree
\* flattened in pre-order holds exactly the same ids, each once, each non-root
\* inside the children of its parent.
C2_AnyForest ==
    (call.op = "get_tree" /\ IsForest(store)) => TreeFaithful(store, resp.tree)

\* ---- C2 as amended: the same, for forests in which every parent is a kb or
\* folder node.
C2_ContainerForest ==
    (call.op = "get_tree" /\ IsContainerForest(store)) => TreeFaithful(store, resp.tree)

\* get_tree has answered for a container forest three levels deep.
C2_Witness ==
    /\ call.op = "get_tree"
    /\ IsContainerForest(store)
    /\ Len(store) >= 3
    /\ \E id \in Ids(store) : Cardinality(UpChain(store, id, Len(store))) >= 2

\* ---- C4 as stated: a second delete_node(id) on the same id, and a
\* delete_node(id) on an id that was never in the store, raise no error and
\* leave the store as it was.
C4_DeleteLeavesStore ==
    [][(/\ call'.op = "delete"
        /\ \/ (call.op = "delete" /\ call.id = call'.id)
           \/ call'.id \notin IssuedIds)
         => (resp'.status = 200 /\ store' = store)
      ]_vars

\* ---- C4 as amended: delete_node raises no error and is idempotent: after
\* delete_node(id), for an id of the store or one never in it, a second
\* delete_node(id) finds nothing to add to its delete set and leaves the store
\* as it is; a delete_node(id) on an id never in the store leaves the store as
\* it was exactly when no node names that id as its parent.
C4_IdempotentDelete ==
    [][call'.op = "delete" =>
         /\ resp'.status = 200
         /\ DeleteNodeRows(store', call'.id) = store'
         /\ ToDelete(store', call'.id) = {call'.id}
         /\ call'.id \notin IssuedIds =>
                (store' = store <=> Children(store, call'.id) = {})
      ]_vars

\* A delete on an id never in the store has removed the nodes naming it as
\* parent, and nodes are left.
C4_Witness ==
    /\ call.op = "delete"
    /\ call.id = Ghost
    /\ Cardinality(to_delete) >= 2
    /\ Len(store) >= 1

\* A node whose parent is absent or is a doc.
IsOrphan(nodes, n) ==
    /\ n.parent_id # None
    /\ \/ ~HasNode(nodes, n.parent_id)
       \/ GetNode(nodes, n.parent_id).type = "doc"

\* ---- C10: a node whose non-null parentId names an id not in the store, or a
\* doc node, appears nowhere in the output of get_tree.
C10_OrphansHidden ==
    call.op = "get_tree" =>
        \A i \in 1..Len(store) :
            IsOrphan(store, store[i]) =>
                store[i].id \notin SeqToSet(FlattenForest(resp.tree))

\* get_tree has answered with a non-empty tree for a store holding a node under
\* a doc and a node under an absent parent.
C10_Witness ==
    /\ call.op = "get_tree"
    /\ Len(resp.tree) >= 1
    /\ \E i \in 1..Len(store) : HasNode(store, store[i].parent_id)
                                /\ IsOrphan(store, store[i])
    /\ \E i \in 1..Len(store) : store[i].parent_id # None
                                /\ ~HasNode(store, store[i].parent_id)

\* ---- C3: save_node_content(id, X) on an existing id, followed at once by
\* read_node(id), returns exactly X, the empty string included.
C3_SaveThenRead ==
    [][(call.op = "save" /\ resp.status = 200 /\ call'.op = "read" /\ call'.id = call.id)
         => (resp'.status = 200 /\ resp'.content = call.text)
      ]_vars

\* A read has returned the non-empty content of a node that is no doc: only a
\* save on that node can have put it there.
C3_Witness ==
    /\ call.op = "read"
    /\ resp.status = 200
    /\ resp.content = <<"a">>
    /\ HasNode(store, call.id)
    /\ GetNode(store, call.id).type # "doc"

\* ---- C5: read_node, save_node_content and rename_node on an id that is not in
\* the store fail with ValueError (HTTP 404) and leave every record unchanged.
C5_NotFound ==
    [][(call'.op \in {"read", "save", "rename"} /\ ~HasNode(store, call'.id))
         => (resp'.status = 404 /\ store' = store)
      ]_vars

\* A save on an id that was deleted has been answered 404 while other nodes exist.
C5_Witness ==
    /\ call.op = "save"
    /\ call.id \in IssuedIds
    /\ resp.status = 404
    /\ Len(store) >= 1

\* q occurs in s as a verbatim (case-sensitive) substring.
IsSubstring(q, s) ==
    \E i \in 0..(Len(s) - Len(q)) : SubSeq(s, i + 1, i + Len(q)) = q

\* ---- C6: for a non-empty query, search_nodes returns exactly the nodes whose
\* title or content holds the query as a verbatim, case-sensitive substring; a
\* node with null content is returned iff its title holds the query.
C6_VerbatimSearch ==
    (call.op = "search" /\ call.text # << >>) =>
        SeqToSet(resp.nodes) =
            {n \in SeqToSet(store) :
                \/ IsSubstring(call.text, n.title)
                \/ (n.content # NoneStr /\ IsSubstring(call.text, n.content))}

\* ---- C7 as stated: in every reachable state a node has non-null content only
\* if its type is doc; every kb and folder node has null content.
C7_ContentOnlyOnDoc ==
    \A i \in 1..Len(store) : store[i].content # NoneStr => store[i].type = "doc"

\* ---- C7 as amended: a node that is no doc has non-null content only through
\* save_node_content: after a create, rename or delete request every node that
\* is no doc and has content had that same content before the request.
C7_ContentOnlyBySave ==
    [][call'.op \in {"create", "rename", "delete"} =>
         \A i \in 1..Len(store') :
             (store'[i].content # NoneStr /\ store'[i].type # "doc") =>
                 /\ HasNode(store, store'[i].id)
                 /\ GetNode(store, store'[i].id).content = store'[i].content
      ]_vars

\* A create has added a container with null content beside a container that
\* holds saved content.
C7_Witness ==
    /\ call.op = "create"
    /\ \E i \in 1..Len(store) : store[i].type # "doc" /\ store[i].content = NoneStr
    /\ \E i \in 1..Len(store) : store[i].type # "doc" /\ store[i].content # NoneStr

\* ---- C8: in every state reachable from the empty store the parentId relation
\* has no cycle.
C8_NoCycle == Acyclic(store)

\* A create naming the id of a deleted node as parent has acted.
C8_Witness ==
    /\ call.op = "create"
    /\ call.id \in IssuedIds \ Ids(store)
    /\ \E i \in 1..Len(store) : store[i].parent_id = call.id

\* Rows a and b agree on every field but the field named f.
SameBut(a, b, f) ==
    \A g \in {"id", "title", "type", "parent_id", "content", "created_at"} \ {f} :
        a[g] = b[g]

\* From before to after, only field f of the row node_id may differ.
OnlyFieldChanged(before, after, node_id, f) ==
    /\ Len(after) = Len(before)
    /\ \A i \in 1..Len(before) :
           IF before[i].id = node_id
           THEN SameBut(before[i], after[i], f)
           ELSE after[i] = before[i]

\* ---- C9: rename_node changes only the title of its node and save_node_content
\* only the content of its node; every other field, every other node and the
\* set of nodes stay as they are.
C9_Frame ==
    [][/\ call'.op = "rename" => OnlyFieldChanged(store, store', call'.id, "title")
       /\ call'.op = "save" => OnlyFieldChanged(store, store', call'.id, "content")
      ]_vars

\* A rename has given a node holding content a title that the other node does
\* not have.
C9_Witness ==
    /\ call.op = "rename"
    /\ resp.status = 200
    /\ Len(store) = 2
    /\ GetNode(store, call.id).title = call.text
    /\ GetNode(store, call.id).content = <<"a">>
    /\ \E i \in 1..2 : store[i].title # call.text

\* The number of levels of the tree hanging from root: 1 for root alone, plus
\* the largest number of parent links from a node of the tree up to root.
Depth(nodes, root) ==
    LET tree == Subtree(nodes, root) \cup {root}
        up(id) == Cardinality(UpChain(nodes, id, Len(nodes)) \cap tree)
    IN  1 + CHOOSE d \in 0..Len(nodes) :
                /\ \A id \in Subtree(nodes, root) : up(id) <= d
                /\ d = 0 \/ \E id \in Subtree(nodes, root) : up(id) = d

\* ---- C11: delete_node on the root of a tree of depth D (D levels, the root
\* being level 1) runs at most D full scans of the node list before its loop
\* stops, in whatever order the scan returns the nodes.
C11_ScansWithinDepth ==
    [][call'.op = "delete" => scans' <= Depth(store, call'.id)]_vars

\* A delete has removed a chain of four nodes, and took four scans to do so.
C11_Witness ==
    /\ call.op = "delete"
    /\ call.id \in IssuedIds
    /\ Cardinality(to_delete) = 4
    /\ scans = 4

====
